---- MODULE Spec2Model ----
(***************************************************************************)
(* The book recommender's frontend: the record store and the shown-set     *)
(* tracker (frontend/src/utils/storage.ts), the CSV import adapter         *)
(* (parseGoodreadsCSV), the API client (searchBooks, getRecommendations),  *)
(* and the handlers of RecommenderPage, LibraryPage and AddBookForm that   *)
(* drive them.                                                             *)
(*                                                                         *)
(* Spec         the store driven from an empty slot                        *)
(* SpecAnySlot  the same calls, the slot holding anything at the start     *)
(* SpecKey      makeKey applied to every short string                      *)
(* SpecShown    the shown-set tracker driven from an empty slot            *)
(* SpecCsv      parseGoodreadsCSV applied to every small file              *)
(* SpecUpload   CSV uploads and manual writes of the library page          *)
(* SpecSearch   the debounced search of AddBookForm                        *)
(* SpecRecs     RecommenderPage: fetches, responses, ratings, navigation   *)
(* SpecStamp    the store given records that carry a key and a date        *)
(* SpecImport   the uploads of both pages, good files and bad ones         *)
(* SpecApp      the pages together: uploads, forms, table, rating nudge    *)
(* SpecAsync    uploads and fetches that settle between the user's actions *)
(*                                                                         *)
(* Strings that the code normalises (title, author, book_key) are          *)
(* sequences of characters; a character is written as a one-token string.  *)
(* "sz" stands for U+00DF (sharp s), "sp" for U+0020 and "tab" for U+0009. *)
(***************************************************************************)
EXTENDS Integers, Sequences, FiniteSets, TLC

VARIABLES
    bookStore,   \* localStorage slot 'bookStore'
    shownSlot,   \* localStorage slot 'shownBookIds'
    now,         \* the clock read by new Date()
    manualKeys,  \* history: keys whose stored record was last written by upsertBook
    last,        \* history: the most recent call, its argument and its result
    page,        \* App: the page that is mounted
    stage,       \* RecommenderPage: 'setup' | 'loading' | 'results' | 'error'
    error,       \* RecommenderPage: the error text
    recs,        \* RecommenderPage: the batch on display
    refreshing,  \* RecommenderPage: a refresh is under way
    requests,    \* recommendation requests in flight
    displayed,   \* history: in how many batches each id has been on display
    preferenceSummary, \* RecommenderPage: the summary of the last response
    batchNumber, \* RecommenderPage: the number of the batch on display
    savedRatings, \* RecommenderPage: the ratings given to recommendations
    nudge,       \* RecommendationList.nudgeRec and the rating of RatingNudge
    query,       \* AddBookForm: the text of the search box
    results,     \* AddBookForm: the hits in the dropdown
    searching,   \* AddBookForm: a search is under way
    timer,       \* AddBookForm: the pending debounce timeout
    searches,    \* searches in flight
    csvLoading,  \* the mounted page: an upload of its own is being parsed
    uploads,     \* uploads whose parsing is under way
    csvError,    \* LibraryPage: the error text of the last upload
    mergeResult, \* LibraryPage: the counts of the last merge
    books,       \* App: the list handed to the library table
    rateQuery,   \* LibraryPage: the text typed under 'Rate a Book'
    rateRating,  \* LibraryPage: the stars selected under 'Rate a Book'
    formRating   \* AddBookForm: the stars selected (its state 'rating')

storeVars == <<bookStore, shownSlot, now, manualKeys, last>>

\* the state of RecommenderPage and of its requests
recsVars ==
    <<page, stage, error, recs, refreshing, requests, displayed,
      preferenceSummary, batchNumber, savedRatings, nudge>>

\* the state of AddBookForm and of its searches
formVars == <<query, results, searching, timer, searches>>

\* the state of the upload section of LibraryPage
uploadVars == <<csvLoading, uploads, csvError, mergeResult>>

\* App's book list and the star widgets of LibraryPage and AddBookForm
libraryVars == <<books, rateQuery, rateRating, formRating>>

uiVars == <<recsVars, formVars, uploadVars, libraryVars>>

vars == <<storeVars, uiVars>>

----------------------------------------------------------------------------
(* Bounds *)

MaxLen == 2        \* longest list handed to mergeBooks
MaxClock == 1      \* the clock stops advancing here
MaxStrLen == 2     \* longest title / author given to makeKey on its own
MaxIds == 2        \* longest id list handed to addShownBookIds
MaxRows == 2       \* most data rows of a CSV file
MaxUploadRows == 1 \* most data rows of a file uploaded on the library page
MaxRequests == 2   \* most recommendation requests in flight
MaxBatch == 1      \* most recommendations in one response
MaxUploads == 1    \* most uploads whose parsing is under way
MaxBatchNumber == 2 \* no fetch is started from this batch number on

----------------------------------------------------------------------------
(* JavaScript strings *)

Undefined == "undefined"

\* r.f, undefined when r has no such property
Get(r, f) == IF f \in DOMAIN r THEN r[f] ELSE Undefined

WhiteSpace == {"sp", "tab"}

\* String.prototype.toLowerCase on one character
LowerChar(c) ==
    CASE c = "A" -> "a"
      [] c = "B" -> "b"
      [] c = "S" -> "s"
      [] c = "X" -> "x"
      [] OTHER -> c

\* String.prototype.toUpperCase on one character (U+00DF upper-cases to "SS")
UpperChar(c) ==
    CASE c = "a" -> <<"A">>
      [] c = "b" -> <<"B">>
      [] c = "s" -> <<"S">>
      [] c = "x" -> <<"X">>
      [] c = "sz" -> <<"S", "S">>
      [] OTHER -> <<c>>

ToLowerCase(s) == [i \in 1..Len(s) |-> LowerChar(s[i])]

RECURSIVE ToUpperCase(_)
ToUpperCase(s) ==
    IF s = <<>> THEN <<>> ELSE UpperChar(Head(s)) \o ToUpperCase(Tail(s))

RECURSIVE TrimStart(_)
TrimStart(s) ==
    IF s # <<>> /\ Head(s) \in WhiteSpace THEN TrimStart(Tail(s)) ELSE s

RECURSIVE TrimEnd(_)
TrimEnd(s) ==
    IF s # <<>> /\ s[Len(s)] \in WhiteSpace
    THEN TrimEnd(SubSeq(s, 1, Len(s) - 1))
    ELSE s

\* String.prototype.trim
Trim(s) == TrimEnd(TrimStart(s))

makeKey(title, author) ==
    Trim(ToLowerCase(title)) \o <<":", ":">> \o Trim(ToLowerCase(author))

----------------------------------------------------------------------------
(* JSON values held by a storage slot *)

\* getItem gives null for a missing slot; the text of a present slot is
\* empty, not JSON, or the JSON text of a value
SlotKinds == {"missing", "empty", "invalid", "null", "number", "object", "array"}

Slot(kind, items) == [kind |-> kind, items |-> items]

MissingSlot == Slot("missing", <<>>)

JsArray(items) == Slot("array", items)

OptionalFields == {"genre", "review", "bookshelves", "isbn"}

\* JSON.stringify followed by JSON.parse of one entry: a property whose
\* value is undefined is not written
Stringify(e) ==
    [f \in {g \in DOMAIN e : ~(g \in OptionalFields /\ e[g] = Undefined)} |-> e[f]]

\* raw ? JSON.parse(raw) : [] inside try / catch
readStore(slot) ==
    IF slot.kind \in {"missing", "empty", "invalid"}
    THEN JsArray(<<>>)
    ELSE slot

writeStore(entries) ==
    JsArray([i \in 1..Len(entries) |-> Stringify(entries[i])])

----------------------------------------------------------------------------
(* A JavaScript Map: entries in insertion order *)

MapHas(m, key) == \E i \in 1..Len(m) : m[i].key = key

\* a set that never looks for the key
MapSetAppend(m, key, val) == Append(m, [key |-> key, val |-> val])

\* Map.prototype.set: an existing key keeps its position and takes the new
\* value, a new key goes to the end
MapSet(m, key, val) ==
    IF MapHas(m, key)
    THEN [i \in 1..Len(m) |-> IF m[i].key = key THEN [key |-> key, val |-> val] ELSE m[i]]
    ELSE Append(m, [key |-> key, val |-> val])

\* new Map(store.map(e => [e.book_key, e]))
RECURSIVE MapFromEntries(_, _)
MapFromEntries(m, items) ==
    IF items = <<>> THEN m
    ELSE MapFromEntries(MapSet(m, Head(items).book_key, Head(items)), Tail(items))

\* Array.from(storeMap.values())
MapValues(m) == [i \in 1..Len(m) |-> m[i].val]

----------------------------------------------------------------------------
(* The record store *)

\* { date_updated: new Date().toISOString(), ...b, book_key: key }
EntryKeepsDate(b, key, t) ==
    [f \in DOMAIN b \cup {"book_key", "date_updated"} |->
        IF f = "book_key" THEN key
        ELSE IF f \in DOMAIN b THEN b[f]
        ELSE t]

\* { book_key: key, ...b, date_updated: new Date().toISOString() }
EntryKeepsKey(b, key, t) ==
    [f \in DOMAIN b \cup {"book_key", "date_updated"} |->
        IF f = "date_updated" THEN t
        ELSE IF f \in DOMAIN b THEN b[f]
        ELSE key]

\* { ...b, book_key: key, date_updated: new Date().toISOString() }
Entry(b, key, t) ==
    [f \in DOMAIN b \cup {"book_key", "date_updated"} |->
        IF f = "book_key" THEN key
        ELSE IF f = "date_updated" THEN t
        ELSE b[f]]

\* the outcome of a call: a returned value or a thrown TypeError
TypeError == [ok |-> FALSE, value |-> "TypeError"]

Return(v) == [ok |-> TRUE, value |-> v]

JsNumber(n) == [type |-> "number", n |-> n]

JsUndefined == [type |-> "undefined", n |-> 0]

\* a loop that counts a row as updated only when it changes the rating
RECURSIVE MergeLoopCountChanges(_, _, _, _)
MergeLoopCountChanges(storeMap, updated, incoming, t) ==
    IF incoming = <<>>
    THEN [storeMap |-> storeMap, updated |-> updated]
    ELSE LET b == Head(incoming)
             key == makeKey(b.title, b.author)
             changed ==
                 \E i \in 1..Len(storeMap) :
                     storeMap[i].key = key /\ storeMap[i].val.rating # b.rating
         IN  MergeLoopCountChanges(MapSet(storeMap, key, Entry(b, key, t)),
                                   IF changed THEN updated + 1 ELSE updated,
                                   Tail(incoming), t)

\* a loop that patches the stored entry field by field: { ...existing, ...b }
RECURSIVE MergeLoopPatch(_, _, _, _)
MergeLoopPatch(storeMap, updated, incoming, t) ==
    IF incoming = <<>>
    THEN [storeMap |-> storeMap, updated |-> updated]
    ELSE LET b == Head(incoming)
             key == makeKey(b.title, b.author)
             existing == MapHas(storeMap, key)
             old == IF existing
                    THEN storeMap[CHOOSE i \in 1..Len(storeMap) : storeMap[i].key = key].val
                    ELSE b
             patched == [f \in DOMAIN old \cup DOMAIN b |->
                            IF f \in DOMAIN b THEN b[f] ELSE old[f]]
         IN  MergeLoopPatch(MapSet(storeMap, key, Entry(patched, key, t)),
                            IF existing THEN updated + 1 ELSE updated,
                            Tail(incoming), t)

\* the for loop of mergeBooks; t is what new Date() gives (a call is
\* instantaneous: time passes between calls, see Tick)
RECURSIVE MergeLoop(_, _, _, _)
MergeLoop(storeMap, updated, incoming, t) ==
    IF incoming = <<>>
    THEN [storeMap |-> storeMap, updated |-> updated]
    ELSE LET b == Head(incoming)
             key == makeKey(b.title, b.author)
             existing == MapHas(storeMap, key)
         IN  MergeLoop(MapSet(storeMap, key, Entry(b, key, t)),
                       IF existing THEN updated + 1 ELSE updated,
                       Tail(incoming), t)

\* a merge that starts from an empty map instead of the stored entries
mergeBooksFromEmpty(slot, incoming, t) ==
    LET store == readStore(slot) IN
    IF store.kind # "array"
    THEN [slot |-> slot, ret |-> TypeError]
    ELSE LET r == MergeLoop(<<>>, 0, incoming, t)
         IN  [slot |-> writeStore(MapValues(r.storeMap)),
              ret |-> Return([total |-> Len(r.storeMap), updated |-> r.updated])]

\* a merge that stamps every entry it writes back, touched or not
mergeBooksRestamp(slot, incoming, t) ==
    LET store == readStore(slot) IN
    IF store.kind # "array"
    THEN [slot |-> slot, ret |-> TypeError]
    ELSE LET r == MergeLoop(MapFromEntries(<<>>, store.items), 0, incoming, t)
             vals == MapValues(r.storeMap)
         IN  [slot |-> writeStore([i \in 1..Len(vals) |-> [vals[i] EXCEPT !.date_updated = t]]),
              ret |-> Return([total |-> Len(r.storeMap), updated |-> r.updated])]

\* mergeBooks: the slot after the call and the returned value
mergeBooks(slot, incoming, t) ==
    LET store == readStore(slot) IN
    IF store.kind # "array"
    THEN [slot |-> slot, ret |-> TypeError]       \* store.map is not callable
    ELSE LET r == MergeLoop(MapFromEntries(<<>>, store.items), 0, incoming, t)
         IN  [slot |-> writeStore(MapValues(r.storeMap)),
              ret |-> Return([total |-> Len(r.storeMap), updated |-> r.updated])]

\* store.findIndex(e => e.book_key === key), 0 for the code's -1
FindIndex(items, key) ==
    IF \E i \in 1..Len(items) : items[i].book_key = key
    THEN CHOOSE i \in 1..Len(items) :
            /\ items[i].book_key = key
            /\ \A j \in 1..(i - 1) : items[j].book_key # key
    ELSE 0

\* an upsert that always pushes
upsertBookPush(slot, book, t) ==
    LET store == readStore(slot) IN
    IF store.kind # "array"
    THEN [slot |-> slot, ret |-> TypeError]
    ELSE LET key == makeKey(book.title, book.author)
         IN  [slot |-> writeStore(Append(store.items, Entry(book, key, t))),
              ret |-> Return(JsUndefined)]

\* an upsert that writes back the one entry only
upsertBookAlone(slot, book, t) ==
    LET store == readStore(slot) IN
    IF store.kind # "array"
    THEN [slot |-> slot, ret |-> TypeError]
    ELSE [slot |-> writeStore(<<Entry(book, makeKey(book.title, book.author), t)>>),
          ret |-> Return(JsUndefined)]

upsertBook(slot, book, t) ==
    LET store == readStore(slot) IN
    IF store.kind # "array"
    THEN [slot |-> slot, ret |-> TypeError]       \* store.findIndex is not callable
    ELSE LET key == makeKey(book.title, book.author)
             idx == FindIndex(store.items, key)
             entry == Entry(book, key, t)
         IN  [slot |-> writeStore(IF idx >= 1
                                  THEN [store.items EXCEPT ![idx] = entry]
                                  ELSE Append(store.items, entry)),
              ret |-> Return(JsUndefined)]

\* a filter that also looks at the shelf
IsRatedAndRead(e) == e.rating >= 1 /\ e.shelf = "read"

\* the predicate of getRatedBooks' filter
IsRated(e) == e.rating >= 1

\* readStore().filter(e => e.rating >= 1)
RECURSIVE FilterRated(_)
FilterRated(items) ==
    IF items = <<>> THEN <<>>
    ELSE IF IsRated(Head(items))
         THEN <<Head(items)>> \o FilterRated(Tail(items))
         ELSE FilterRated(Tail(items))

getRatedBooks(slot) ==
    LET store == readStore(slot) IN
    IF store.kind # "array"
    THEN TypeError                                \* readStore().filter is not callable
    ELSE Return(FilterRated(store.items))

getAllBooks(slot) == Return(readStore(slot))

getBookCount(slot) ==
    LET store == readStore(slot) IN
    CASE store.kind = "array" -> Return(JsNumber(Len(store.items)))
      [] store.kind = "null" -> TypeError         \* property of null
      [] OTHER -> Return(JsUndefined)             \* a number or {} has no length

----------------------------------------------------------------------------
(* The shown-set tracker *)

\* raw ? JSON.parse(raw) : [] inside try / catch
getShownBookIds(slot) ==
    IF slot.kind \in {"missing", "empty", "invalid"}
    THEN JsArray(<<>>)
    ELSE slot

\* Array.from(new Set(list)): the first occurrence of each element, in order
RECURSIVE ArrayFromSet(_, _)
ArrayFromSet(seen, list) ==
    IF list = <<>> THEN seen
    ELSE IF \E i \in 1..Len(seen) : seen[i] = Head(list)
         THEN ArrayFromSet(seen, Tail(list))
         ELSE ArrayFromSet(Append(seen, Head(list)), Tail(list))

\* an add that keeps only the ids of this call
addShownBookIdsReplace(slot, ids) ==
    [slot |-> JsArray(ArrayFromSet(<<>>, ids)), ret |-> Return(JsUndefined)]

\* an add that concatenates without the Set
addShownBookIdsConcat(slot, ids) ==
    [slot |-> JsArray(getShownBookIds(slot).items \o ids), ret |-> Return(JsUndefined)]

\* addShownBookIds: the slot after the call and the returned value
addShownBookIds(slot, ids) ==
    LET current == getShownBookIds(slot) IN
    IF current.kind # "array"
    THEN [slot |-> slot, ret |-> TypeError]       \* current is not iterable
    ELSE [slot |-> JsArray(ArrayFromSet(<<>>, current.items \o ids)),
          ret |-> Return(JsUndefined)]

----------------------------------------------------------------------------
(* Inputs *)

Dune == <<"a">>
DuneUpper == <<"A", "sp">>       \* the same book, other case and outer space
Emma == <<"b">>

Titles == {Dune, DuneUpper, Emma}

Herbert == <<"x">>

\* a row as parseGoodreadsCSV hands it over: it carries the book_key and
\* the date_updated that the parser gave it
CsvRow(title, rating) ==
    [title |-> title, author |-> Herbert, rating |-> rating,
     shelf |-> IF rating = 0 THEN "to-read" ELSE "read",
     review |-> IF rating = 0 THEN Undefined ELSE "great",
     bookshelves |-> Undefined, isbn |-> Undefined,
     source |-> "goodreads",
     book_key |-> makeKey(title, Herbert), date_updated |-> 0]

\* a record as handleAddBook builds it
ManualBook(title, rating) ==
    [title |-> title, author |-> Herbert, rating |-> rating,
     genre |-> "scifi", shelf |-> "currently-reading", source |-> "manual"]

Books ==
    {CsvRow(Dune, 5), ManualBook(DuneUpper, 3), CsvRow(Emma, 0)}

BookLists == UNION {[1..n -> Books] : n \in 0..MaxLen}

\* the identity key of each input
KeyOfBook == [b \in Books |-> makeKey(b.title, b.author)]

KeysOf(incoming) == {KeyOfBook[incoming[i]] : i \in 1..Len(incoming)}

\* the google_books_id values of the books the backend knows
Ids == {"g1", "g2", "g3"}

IdLists == UNION {[1..n -> Ids] : n \in 0..MaxIds}

\* what the slot can hold when the application starts
SlotContents == {Slot(k, <<>>) : k \in SlotKinds}

----------------------------------------------------------------------------
(* State machine *)

Call(op, arg, ret, repeat) == [op |-> op, arg |-> arg, ret |-> ret, repeat |-> repeat]

NoCall == Call("init", <<>>, Return(JsUndefined), FALSE)

JsNull == [type |-> "null", n |-> 0]

NoTimer == [set |-> FALSE, query |-> <<>>]

\* no recommendation is being rated
NoNudge == [open |-> FALSE, rec |-> JsNull, rating |-> 0]

\* {}: no recommendation has a saved rating
NoRatings == [id \in {} |-> 0]

\* useState initial values of RecommenderPage
InitRecommenderPage ==
    /\ stage = "setup"
    /\ error = <<>>
    /\ recs = <<>>
    /\ refreshing = FALSE
    /\ preferenceSummary = ""
    /\ batchNumber = 0
    /\ savedRatings = NoRatings
    /\ nudge = NoNudge

\* nothing is mounted but the landing page, nothing is in flight
InitUi ==
    /\ page = "landing"
    /\ InitRecommenderPage
    /\ requests = {}
    /\ displayed = [id \in Ids |-> 0]
    /\ query = <<>>
    /\ results = <<>>
    /\ searching = FALSE
    /\ timer = NoTimer
    /\ searches = {}
    /\ csvLoading = FALSE
    /\ uploads = {}
    /\ csvError = <<>>
    /\ mergeResult = JsNull
    /\ rateQuery = <<>>
    /\ rateRating = 0
    /\ formRating = 0

\* useState(() => getAllBooks()) of App
InitBooks == books = getAllBooks(bookStore).value

Init ==
    /\ InitUi
    /\ bookStore = MissingSlot
    /\ shownSlot = MissingSlot
    /\ now = 0
    /\ manualKeys = {}
    /\ last = NoCall
    /\ InitBooks

InitAnySlot ==
    /\ InitUi
    /\ bookStore \in SlotContents
    /\ shownSlot = MissingSlot
    /\ now = 0
    /\ manualKeys = {}
    /\ last = NoCall
    /\ InitBooks

MergeBooks ==
    \E incoming \in BookLists :
        \E r \in {mergeBooks(bookStore, incoming, now)} :
        /\ bookStore' = r.slot
        /\ manualKeys' = IF r.ret.ok THEN manualKeys \ KeysOf(incoming) ELSE manualKeys
        /\ last' = Call("mergeBooks", incoming, r.ret,
                        last.op = "mergeBooks" /\ last.arg = incoming)
        /\ UNCHANGED <<shownSlot, now>>
        /\ UNCHANGED uiVars

UpsertBook ==
    \E book \in Books :
        \E r \in {upsertBook(bookStore, book, now)} :
        /\ bookStore' = r.slot
        /\ manualKeys' = IF r.ret.ok
                         THEN manualKeys \cup {makeKey(book.title, book.author)}
                         ELSE manualKeys
        /\ last' = Call("upsertBook", book, r.ret, FALSE)
        /\ UNCHANGED <<shownSlot, now>>
        /\ UNCHANGED uiVars

GetRatedBooks ==
    /\ last' = Call("getRatedBooks", <<>>, getRatedBooks(bookStore), FALSE)
    /\ UNCHANGED <<bookStore, shownSlot, now, manualKeys>>
    /\ UNCHANGED uiVars

GetAllBooks ==
    /\ last' = Call("getAllBooks", <<>>, getAllBooks(bookStore), FALSE)
    /\ UNCHANGED <<bookStore, shownSlot, now, manualKeys>>
    /\ UNCHANGED uiVars

GetBookCount ==
    /\ last' = Call("getBookCount", <<>>, getBookCount(bookStore), FALSE)
    /\ UNCHANGED <<bookStore, shownSlot, now, manualKeys>>
    /\ UNCHANGED uiVars

ClearAll ==
    /\ bookStore' = MissingSlot
    /\ shownSlot' = MissingSlot
    /\ manualKeys' = {}
    /\ last' = Call("clearAll", <<>>, Return(JsUndefined), FALSE)
    /\ UNCHANGED now
    /\ UNCHANGED uiVars

ClearShownBookIds ==
    /\ shownSlot' = MissingSlot
    /\ last' = Call("clearShownBookIds", <<>>, Return(JsUndefined), FALSE)
    /\ UNCHANGED <<bookStore, now, manualKeys>>
    /\ UNCHANGED uiVars

\* time passes between two calls
Tick ==
    /\ now < MaxClock
    /\ now' = now + 1
    /\ UNCHANGED <<bookStore, shownSlot, manualKeys, last>>
    /\ UNCHANGED uiVars

Next ==
    \/ MergeBooks
    \/ UpsertBook
    \/ GetRatedBooks
    \/ GetAllBooks
    \/ GetBookCount
    \/ ClearAll
    \/ ClearShownBookIds
    \/ Tick

Spec == Init /\ [][Next]_vars

SpecAnySlot == InitAnySlot /\ [][Next]_vars

\* makeKey on its own: the characters and the strings it is given
Chars == {"a", "A", "sz", "sp", ":"}

Strings == UNION {[1..n -> Chars] : n \in 0..MaxStrLen}

InitKey ==
    /\ InitUi
    /\ bookStore = MissingSlot
    /\ shownSlot = MissingSlot
    /\ now = 0
    /\ manualKeys = {}
    /\ last \in {Call("input", [title |-> t, author |-> a], Return(JsUndefined), FALSE) :
                    t \in Strings, a \in Strings}
    /\ InitBooks

MakeKey ==
    /\ last.op = "input"
    /\ last' = Call("makeKey", last.arg,
                    Return(makeKey(last.arg.title, last.arg.author)), FALSE)
    /\ UNCHANGED <<bookStore, shownSlot, now, manualKeys>>
    /\ UNCHANGED uiVars

NextKey == MakeKey

SpecKey == InitKey /\ [][NextKey]_vars

AddShownBookIds ==
    \E ids \in IdLists :
        \E r \in {addShownBookIds(shownSlot, ids)} :
        /\ shownSlot' = r.slot
        /\ last' = Call("addShownBookIds", ids, r.ret, FALSE)
        /\ UNCHANGED <<bookStore, now, manualKeys>>
        /\ UNCHANGED uiVars

GetShownBookIds ==
    /\ last' = Call("getShownBookIds", <<>>, Return(getShownBookIds(shownSlot)), FALSE)
    /\ UNCHANGED <<bookStore, shownSlot, now, manualKeys>>
    /\ UNCHANGED uiVars

NextShown ==
    \/ AddShownBookIds
    \/ GetShownBookIds
    \/ ClearShownBookIds
    \/ ClearAll

SpecShown == Init /\ [][NextShown]_vars

----------------------------------------------------------------------------
(* The CSV import adapter (frontend/src/types/index.ts, parseGoodreadsCSV). *)
(* A file is what Papa.parse makes of it: an error of the reader, or the    *)
(* data rows, each a function from the columns it has to their text. A      *)
(* message is the sequence of the pieces it is concatenated from.           *)

\* a rejected promise or a thrown Error with this message
Throw(message) == [ok |-> FALSE, value |-> message]

File(rows) == [error |-> FALSE, rows |-> rows]

UnreadableFile == [error |-> TRUE, rows |-> <<>>]

Required == <<"Title", "Author", "My Rating", "Exclusive Shelf">>

\* row[col]?.trim() || ''
TrimmedCell(row, col) == IF col \in DOMAIN row THEN Trim(row[col]) ELSE <<>>

\* list.join(sep), in pieces
RECURSIVE Join(_, _)
Join(list, sep) ==
    IF Len(list) <= 1 THEN list
    ELSE <<Head(list), sep>> \o Join(Tail(list), sep)

\* a check that reports the first missing column only
MissingColumnsFirstOnly(firstRow) ==
    SubSeq(SelectSeq(Required, LAMBDA col : col \notin DOMAIN firstRow), 1, 1)

\* required.filter(col => !(col in firstRow))
MissingColumns(firstRow) ==
    SelectSeq(Required, LAMBDA col : col \notin DOMAIN firstRow)

Digits == <<"0", "1", "2", "3", "4", "5", "6", "7", "8", "9">>

IsDigit(c) == \E i \in 1..Len(Digits) : Digits[i] = c

DigitValue(c) == (CHOOSE i \in 1..Len(Digits) : Digits[i] = c) - 1

NaN == [nan |-> TRUE, n |-> 0]

Number(n) == [nan |-> FALSE, n |-> n]

\* the decimal digits at the start of s, NaN when there is none
RECURSIVE ParseDigits(_, _, _)
ParseDigits(s, acc, seen) ==
    IF s = <<>> \/ ~IsDigit(Head(s))
    THEN IF seen THEN Number(acc) ELSE NaN
    ELSE ParseDigits(Tail(s), acc * 10 + DigitValue(Head(s)), TRUE)

\* parseInt(s, 10): leading white space, a sign, digits; the rest is ignored
parseInt(s) ==
    LET t == TrimStart(s) IN
    IF t # <<>> /\ Head(t) = "-"
    THEN LET v == ParseDigits(Tail(t), 0, FALSE)
         IN  IF v.nan THEN NaN ELSE Number(0 - v.n)
    ELSE IF t # <<>> /\ Head(t) = "+"
         THEN ParseDigits(Tail(t), 0, FALSE)
         ELSE ParseDigits(t, 0, FALSE)

\* v || 0
OrZero(v) == IF v.nan THEN 0 ELSE v.n

\* parseInt(row['My Rating'] || '0', 10) || 0
ParseRating(row) ==
    LET cell == IF "My Rating" \in DOMAIN row /\ row["My Rating"] # <<>>
                THEN row["My Rating"] ELSE <<"0">>
    IN  OrZero(parseInt(cell))

Read == <<"r", "e", "a", "d">>

\* the text of a shelf; the shelf 'read' is written "read" in every record
ShelfOf(text) == IF text = Read THEN "read" ELSE text

\* the record of one row; the files of the model have none of the columns
\* My Review, Bookshelves, ISBN and ISBN13
ParseRow(row, t) ==
    LET title == TrimmedCell(row, "Title")
        author == TrimmedCell(row, "Author")
        shelf == TrimmedCell(row, "Exclusive Shelf")
    IN  [book_key |-> makeKey(title, author),
         title |-> title,
         author |-> author,
         rating |-> ParseRating(row),
         shelf |-> ShelfOf(IF shelf = <<>> THEN Read ELSE shelf),
         review |-> Undefined,
         bookshelves |-> Undefined,
         isbn |-> Undefined,
         source |-> "goodreads",
         date_updated |-> t]

\* a filter that does not trim
HasTitleUntrimmed(row) == "Title" \in DOMAIN row /\ row["Title"] # <<>>

\* row['Title']?.trim() is truthy
HasTitle(row) == TrimmedCell(row, "Title") # <<>>

\* rows.filter(...).map(...)
RECURSIVE ParseRows(_, _)
ParseRows(rows, t) ==
    IF rows = <<>> THEN <<>>
    ELSE IF HasTitle(Head(rows))
         THEN <<ParseRow(Head(rows), t)>> \o ParseRows(Tail(rows), t)
         ELSE ParseRows(Tail(rows), t)

EmptyMessage == <<"CSV file is empty">>

SchemaPrefix == "This doesn't look like a Goodreads export. Missing columns: "

ParseErrorMessage == <<"CSV parse error: ", "NotReadableError">>

\* parseGoodreadsCSV: what the promise settles to
parseGoodreadsCSV(file, t) ==
    IF file.error THEN Throw(ParseErrorMessage)
    ELSE IF Len(file.rows) = 0 THEN Throw(EmptyMessage)
    ELSE LET missing == MissingColumns(file.rows[1]) IN
         IF Len(missing) > 0
         THEN Throw(<<SchemaPrefix>> \o Join(missing, ", "))
         ELSE Return(ParseRows(file.rows, t))

\* the text of the My Rating column
RatingCells == {<<>>, <<"4">>, <<"7">>, <<"-", "2">>, <<"x">>}

\* the text of the Title column: two books and a blank
TitleCells == {DuneUpper, Emma, <<"sp">>}

FullRow(title, rating) ==
    ("Title" :> title) @@ ("Author" :> Herbert) @@ ("My Rating" :> rating)
        @@ ("Exclusive Shelf" :> <<"sp">> \o Read)

RequiredSet == {Required[i] : i \in 1..Len(Required)}

\* rows with all four columns, and a row cut down to each smaller set of them
Rows ==
    {FullRow(title, rating) : title \in TitleCells, rating \in RatingCells}
        \cup {[col \in cols |-> FullRow(Dune, <<"4">>)[col]] :
                  cols \in (SUBSET RequiredSet) \ {RequiredSet}}

Files == {File(rows) : rows \in UNION {[1..n -> Rows] : n \in 0..MaxRows}}
            \cup {UnreadableFile}

InitCsv ==
    /\ InitUi
    /\ bookStore = MissingSlot
    /\ shownSlot = MissingSlot
    /\ now = 0
    /\ manualKeys = {}
    /\ last \in {Call("input", file, Return(JsUndefined), FALSE) : file \in Files}
    /\ InitBooks

ParseGoodreadsCSV ==
    /\ last.op = "input"
    /\ last' = Call("parseGoodreadsCSV", last.arg, parseGoodreadsCSV(last.arg, now), FALSE)
    /\ UNCHANGED <<bookStore, shownSlot, now, manualKeys>>
    /\ UNCHANGED uiVars

NextCsv == ParseGoodreadsCSV

SpecCsv == InitCsv /\ [][NextCsv]_vars

----------------------------------------------------------------------------
(* The upload section of LibraryPage (handleCsvUpload), next to the manual *)
(* adds and rating edits of the same page.                                 *)

\* the rows of the files that are uploaded: one book under every rating
\* text, and a row without the other columns
UploadRows ==
    {FullRow(Dune, rating) : rating \in RatingCells}
        \cup {[col \in {"Title"} |-> Dune]}

UploadFiles ==
    {File(rows) : rows \in UNION {[1..n -> UploadRows] : n \in 0..MaxUploadRows}}
        \cup {UnreadableFile}

Pages == {"landing", "recommender", "library"}

\* onNavigate(to) from the buttons of the mounted page. The page that is
\* left is unmounted: its state is gone, and the setState calls of its
\* uploads and requests that are still under way show nothing. The page
\* that is mounted starts from its initial state.
Navigate ==
    \E to \in Pages \ {page} :
        /\ CASE page = "landing" -> TRUE
             [] page = "library" -> to = "landing"
             [] OTHER -> to = "landing" \/ stage = "error"
        /\ page' = to
        /\ requests' = {[q EXCEPT !.mounted = FALSE] : q \in requests}
        /\ uploads' = {[u EXCEPT !.mounted = FALSE] : u \in uploads}
        /\ stage' = "setup"
        /\ error' = <<>>
        /\ recs' = <<>>
        /\ refreshing' = FALSE
        /\ preferenceSummary' = ""
        /\ batchNumber' = 0
        /\ savedRatings' = NoRatings
        /\ nudge' = NoNudge
        /\ csvLoading' = FALSE
        /\ csvError' = <<>>
        /\ mergeResult' = JsNull
        /\ rateQuery' = <<>>
        /\ rateRating' = 0
        /\ formRating' = 0
        /\ last' = Call("onNavigate", to, Return(JsUndefined), FALSE)
        /\ UNCHANGED <<displayed, books>>
        /\ UNCHANGED <<bookStore, shownSlot, now, manualKeys>>
        /\ UNCHANGED formVars

\* a refresh that reads the rated books only
handleLibraryUpdateRated(slot) == JsArray(getRatedBooks(slot).value)

\* App.handleLibraryUpdate: the list that setBooks(getAllBooks()) leaves
handleLibraryUpdate(slot) == getAllBooks(slot).value

\* a catch that shows its own text whatever was thrown
MessageFallback(thrown) == <<"Failed to parse CSV">>

\* e instanceof Error ? e.message : 'Failed to parse CSV', for what
\* parseGoodreadsCSV rejects with (always an Error)
MessageOf(thrown) == thrown.value

\* an upload under way: the page whose handler awaits it, and whether that
\* page instance is still mounted
Upload(on, file) == [page |-> on, mounted |-> TRUE, file |-> file]

\* LibraryPage.handleCsvUpload up to its await, given one of the files:
\* the drop zone takes no file while csvLoading is set
LibraryUpload(files) ==
    /\ page = "library"
    /\ ~csvLoading
    /\ Cardinality(uploads) < MaxUploads
    /\ \E file \in files :
          /\ uploads' = uploads \cup {Upload("library", file)}
          /\ last' = Call("handleCsvUpload", file, Return(JsUndefined), FALSE)
    /\ csvLoading' = TRUE
    /\ csvError' = <<>>
    /\ mergeResult' = JsNull
    /\ UNCHANGED <<bookStore, shownSlot, now, manualKeys>>
    /\ UNCHANGED <<recsVars, formVars, libraryVars>>

HandleCsvUpload == LibraryUpload(UploadFiles)

\* LibraryPage.handleCsvUpload from the settling of parseGoodreadsCSV to
\* its end
CsvUploadSettles ==
    \E u \in uploads :
      /\ u.page = "library"
      /\ \E parsed \in {parseGoodreadsCSV(u.file, now)} :
          /\ last' = Call("parseGoodreadsCSV", u.file, parsed, FALSE)
          /\ IF parsed.ok
             THEN \E r \in {mergeBooks(bookStore, parsed.value, now)} :
                     /\ bookStore' = r.slot
                     /\ manualKeys' =
                           IF r.ret.ok
                           THEN manualKeys \ {parsed.value[i].book_key :
                                                 i \in 1..Len(parsed.value)}
                           ELSE manualKeys
                     /\ mergeResult' =
                           IF r.ret.ok /\ u.mounted THEN r.ret.value ELSE mergeResult
                     /\ books' = IF r.ret.ok THEN handleLibraryUpdate(r.slot) ELSE books
                     /\ csvError' =
                           IF r.ret.ok \/ ~u.mounted THEN csvError ELSE <<r.ret.value>>
             ELSE /\ csvError' = IF u.mounted THEN MessageOf(parsed) ELSE csvError
                  /\ UNCHANGED <<bookStore, manualKeys, mergeResult, books>>
      /\ csvLoading' = IF u.mounted THEN FALSE ELSE csvLoading
      /\ uploads' = uploads \ {u}
      /\ UNCHANGED <<shownSlot, now>>
      /\ UNCHANGED <<rateQuery, rateRating, formRating>>
      /\ UNCHANGED <<recsVars, formVars>>

NextUpload ==
    \/ Navigate
    \/ HandleCsvUpload
    \/ CsvUploadSettles
    \/ UpsertBook

SpecUpload == Init /\ [][NextUpload]_vars

----------------------------------------------------------------------------
(* The search box of AddBookForm and the API client's searchBooks. The     *)
(* outcome of a request is what the network makes of it: a rejected fetch, *)
(* a response with a status that is not ok, a body that is not JSON, or    *)
(* the hits.                                                               *)

HitLists == {<<>>, <<"g1">>, <<"g1", "g2">>}

SearchOutcomes ==
    {[kind |-> "ok", hits |-> hits] : hits \in HitLists}
        \cup {[kind |-> k, hits |-> <<>>] : k \in {"http", "network", "badjson"}}

\* searchBooks: what the promise settles to
searchBooks(outcome) ==
    CASE outcome.kind = "network" -> Throw(<<"Failed to fetch">>)   \* await fetch(...)
      [] outcome.kind = "http" -> Return(<<>>)                      \* !res.ok
      [] outcome.kind = "badjson" -> Throw(<<"SyntaxError">>)       \* res.json()
      [] OTHER -> Return(outcome.hits)

\* what is typed into the search box
SearchTexts == {<<>>, <<"a">>, <<"a", "b">>, <<"a", "b", "sp">>, <<"b", "a">>}

\* setQuery and the effect that follows it (no book is selected): the
\* cleanup of the last effect clears its timeout, a short query empties
\* the dropdown, a longer one starts a timeout
SetQuery ==
    \E text \in SearchTexts \ {query} :
        /\ query' = text
        /\ IF Len(Trim(text)) < 2
           THEN results' = <<>> /\ timer' = NoTimer
           ELSE results' = results /\ timer' = [set |-> TRUE, query |-> text]
        /\ last' = Call("setQuery", text, Return(JsUndefined), FALSE)
        /\ UNCHANGED <<searching, searches>>
        /\ UNCHANGED <<bookStore, shownSlot, now, manualKeys>>
        /\ UNCHANGED <<recsVars, uploadVars, libraryVars>>

\* the timeout callback up to its await
TimerFires ==
    /\ timer.set
    /\ searching' = TRUE
    /\ searches' = searches \cup {Trim(timer.query)}
    /\ timer' = NoTimer
    /\ last' = Call("setTimeout", timer.query, Return(JsUndefined), FALSE)
    /\ UNCHANGED <<query, results>>
    /\ UNCHANGED <<bookStore, shownSlot, now, manualKeys>>
    /\ UNCHANGED <<recsVars, uploadVars, libraryVars>>

\* the timeout callback from the settling of searchBooks to its end
SearchSettles ==
    \E q \in searches, outcome \in SearchOutcomes :
        \E r \in {searchBooks(outcome)} :
        /\ results' = IF r.ok THEN r.value ELSE <<>>
        /\ searching' = FALSE
        /\ searches' = searches \ {q}
        /\ last' = Call("searchBooks", [query |-> q, outcome |-> outcome], r, FALSE)
        /\ UNCHANGED <<query, timer>>
        /\ UNCHANGED <<bookStore, shownSlot, now, manualKeys>>
        /\ UNCHANGED <<recsVars, uploadVars, libraryVars>>

NextSearch ==
    \/ SetQuery
    \/ TimerFires
    \/ SearchSettles

SpecSearch == Init /\ [][NextSearch]_vars

----------------------------------------------------------------------------
(* RecommenderPage (fetchRecs, handleRate, 'Try again'), the API client's  *)
(* getRecommendations, and App's page switch. A request stays in flight    *)
(* from the await in fetchRecs until its response settles; it is mounted   *)
(* while the page instance that sent it is, and the setState calls of an   *)
(* instance that is unmounted show nothing. The backend is given no genre  *)
(* mood: genreMood is left out.                                            *)

Persuasion == <<"s">>

Walden == <<"w">>

\* null, as the value of a field
Null == "null"

\* the library the recommender is opened on: two rated books and one that
\* is not rated
SeedStore ==
    mergeBooks(MissingSlot,
               <<CsvRow(Dune, 5), CsvRow(Emma, 0), CsvRow(Persuasion, 4)>>, 0).slot

\* the books the backend recommends
Catalog == {"g1", "g2"}

\* the book behind a google_books_id
RecOf(id) ==
    [google_books_id |-> id,
     title |-> CASE id = "g1" -> <<"p">> [] id = "g2" -> <<"q">> [] OTHER -> <<"r">>,
     author |-> Herbert]

\* the lists a backend can answer with when it returns no excluded id: ids
\* that are not excluded, each once
Batches(exclude) ==
    {batch \in UNION {[1..n -> Catalog] : n \in 0..MaxBatch} :
        /\ \A i \in 1..Len(batch) :
              /\ \A j \in 1..Len(exclude) : exclude[j] # batch[i]
              /\ \A j \in 1..(i - 1) : batch[j] # batch[i]}

\* preference_summary of a response
Summary == "You like science fiction."

\* what the network makes of a request
RecsOutcomes(exclude) ==
    {[kind |-> "ok", detail |-> <<>>,
      recommendations |-> [i \in 1..Len(batch) |-> RecOf(batch[i])],
      preference_summary |-> Summary] :
        batch \in Batches(exclude)}
      \cup {[kind |-> "http", detail |-> d, recommendations |-> <<>>,
              preference_summary |-> ""] :
                d \in {<<>>, <<"Rate limit exceeded">>}}
      \cup {[kind |-> k, detail |-> <<>>, recommendations |-> <<>>,
              preference_summary |-> ""] :
                k \in {"network", "badjson"}}

\* the body of a response that is a success
Response(outcome) ==
    [recommendations |-> outcome.recommendations,
     preference_summary |-> outcome.preference_summary]

\* read_books of the request body
ReadBooks(ratedBooks) ==
    [i \in 1..Len(ratedBooks) |->
        LET b == ratedBooks[i] IN
        [title |-> b.title, author |-> b.author, rating |-> b.rating, shelf |-> b.shelf,
         review |-> IF Get(b, "review") = Undefined THEN Null ELSE b.review,
         bookshelves |-> IF Get(b, "bookshelves") = Undefined THEN Null ELSE b.bookshelves,
         isbn |-> IF Get(b, "isbn") = Undefined THEN Null ELSE b.isbn]]

DefaultDetail == <<"Recommendation failed">>

\* a client that does not look at the status of the response
getRecommendationsAnyStatus(outcome) ==
    CASE outcome.kind = "network" -> Throw(<<"Failed to fetch">>)
      [] outcome.kind = "badjson" -> Throw(<<"SyntaxError">>)
      [] OTHER -> Return(Response(outcome))

\* a client that never reads the detail of the error body
getRecommendationsDefaultDetail(outcome) ==
    CASE outcome.kind = "network" -> Throw(<<"Failed to fetch">>)
      [] outcome.kind = "http" -> Throw(DefaultDetail)
      [] outcome.kind = "badjson" -> Throw(<<"SyntaxError">>)
      [] OTHER -> Return(Response(outcome))

\* getRecommendations from the settling of fetch on: what the promise
\* settles to
getRecommendations(outcome) ==
    CASE outcome.kind = "network" -> Throw(<<"Failed to fetch">>)     \* await fetch(...)
      [] outcome.kind = "http" ->                                     \* !res.ok
            Throw(IF outcome.detail = <<>> THEN DefaultDetail ELSE outcome.detail)
      [] outcome.kind = "badjson" -> Throw(<<"SyntaxError">>)         \* res.json()
      [] OTHER -> Return(Response(outcome))

MinRated == 3

\* a page that asks for two rated books only
EnoughRatedTwo(rated) == Len(rated) >= MinRated - 1

\* !(rated.length < 3)
EnoughRated(rated) == Len(rated) >= MinRated

NeedMoreMessage ==
    <<"You need at least 3 rated books. Add more in My Library & Ratings.">>

InitRecs ==
    /\ InitUi
    /\ bookStore = SeedStore
    /\ shownSlot = MissingSlot
    /\ now = 0
    /\ manualKeys = {}
    /\ last = NoCall
    /\ InitBooks

\* getBookCount() > 0, as RecommenderPage renders it
hasBooks(slot) ==
    LET count == getBookCount(slot)
    IN  count.ok /\ count.value.type = "number" /\ count.value.n > 0

\* fetchRecs up to its await, from the button that the stage shows; a
\* stage that is not 'results' unmounts the RecommendationList
FetchRecs ==
    /\ page = "recommender"
    /\ Cardinality(requests) < MaxRequests
    /\ batchNumber < MaxBatchNumber
    /\ \E isRefresh \in BOOLEAN :
          /\ IF isRefresh
             THEN stage = "results" /\ ~refreshing
             ELSE stage \in {"setup", "error"} /\ hasBooks(bookStore)
          /\ \E rated \in {getRatedBooks(bookStore)} :
                /\ rated.ok
                /\ IF ~EnoughRated(rated.value)
                   THEN /\ error' = NeedMoreMessage
                        /\ stage' = "error"
                        /\ nudge' = NoNudge
                        /\ UNCHANGED <<refreshing, requests>>
                   ELSE /\ refreshing' = (isRefresh \/ refreshing)
                        /\ stage' = IF isRefresh THEN stage ELSE "loading"
                        /\ error' = <<>>
                        /\ nudge' = nudge
                        /\ requests' = requests \cup
                              {[mounted |-> TRUE,
                                read_books |-> ReadBooks(rated.value),
                                exclude_book_ids |-> getShownBookIds(shownSlot).items]}
          /\ last' = Call("fetchRecs", isRefresh, Return(JsUndefined), FALSE)
    /\ UNCHANGED <<page, recs, displayed, preferenceSummary, batchNumber, savedRatings>>
    /\ UNCHANGED <<bookStore, shownSlot, now, manualKeys>>
    /\ UNCHANGED <<formVars, uploadVars, libraryVars>>

\* fetchRecs from the settling of getRecommendations to its end
RecsSettle ==
    \E q \in requests :
      \E outcome \in RecsOutcomes(q.exclude_book_ids) :
        \E data \in {getRecommendations(outcome)} :
          LET mounted == q.mounted
              ids == IF data.ok
                     THEN [i \in 1..Len(data.value.recommendations) |->
                              data.value.recommendations[i].google_books_id]
                     ELSE <<>>
              added == addShownBookIds(shownSlot, ids)
              done == data.ok /\ added.ret.ok
          IN  /\ requests' = requests \ {q}
              /\ shownSlot' = IF done THEN added.slot ELSE shownSlot
              /\ recs' = IF done /\ mounted THEN data.value.recommendations ELSE recs
              /\ preferenceSummary' =
                    IF done /\ mounted THEN data.value.preference_summary
                    ELSE preferenceSummary
              /\ batchNumber' = IF done /\ mounted THEN batchNumber + 1 ELSE batchNumber
              /\ displayed' = IF done /\ mounted
                               THEN [id \in Ids |->
                                       IF \E i \in 1..Len(ids) : ids[i] = id
                                       THEN displayed[id] + 1 ELSE displayed[id]]
                               ELSE displayed
              /\ stage' = IF ~mounted THEN stage
                           ELSE IF done THEN "results" ELSE "error"
              /\ error' = IF ~mounted \/ done THEN error
                           ELSE IF data.ok THEN <<added.ret.value>> ELSE data.value
              /\ refreshing' = IF mounted THEN FALSE ELSE refreshing
              /\ nudge' = IF mounted /\ ~done THEN NoNudge ELSE nudge
              /\ last' = Call("getRecommendations",
                               [request |-> q, outcome |-> outcome], data, FALSE)
              /\ UNCHANGED <<page, savedRatings>>
              /\ UNCHANGED <<bookStore, now, manualKeys>>
              /\ UNCHANGED <<formVars, uploadVars, libraryVars>>

\* the 'Try again' button of the error banner
TryAgain ==
    /\ page = "recommender"
    /\ stage = "error"
    /\ stage' = "setup"
    /\ last' = Call("tryAgain", <<>>, Return(JsUndefined), FALSE)
    /\ UNCHANGED <<page, error, recs, refreshing, requests, displayed,
                   preferenceSummary, batchNumber, savedRatings, nudge>>
    /\ UNCHANGED <<bookStore, shownSlot, now, manualKeys>>
    /\ UNCHANGED <<formVars, uploadVars, libraryVars>>

\* the star of StarRating that is clicked
Stars == {5}

\* a form that saves with no star selected
IsSelectedAlways(stars) == TRUE

\* !(rating === 0): a star has been selected
IsSelected(stars) == stars # 0

\* 'I read this - rate it' on a card without a saved rating: setNudgeRec
OpenNudge ==
    /\ page = "recommender"
    /\ stage = "results"
    /\ ~nudge.open
    /\ \E i \in 1..Len(recs) :
          /\ recs[i].google_books_id \notin DOMAIN savedRatings
          /\ nudge' = [open |-> TRUE, rec |-> recs[i], rating |-> 0]
          /\ last' = Call("onLiked", recs[i], Return(JsUndefined), FALSE)
    /\ UNCHANGED <<page, stage, error, recs, refreshing, requests, displayed,
                   preferenceSummary, batchNumber, savedRatings>>
    /\ UNCHANGED <<bookStore, shownSlot, now, manualKeys>>
    /\ UNCHANGED <<formVars, uploadVars, libraryVars>>

\* a star of the StarRating of RatingNudge: setRating
SetNudgeRating ==
    /\ nudge.open
    /\ \E n \in Stars :
          /\ nudge' = [nudge EXCEPT !.rating = n]
          /\ last' = Call("setRating", n, Return(JsUndefined), FALSE)
    /\ UNCHANGED <<page, stage, error, recs, refreshing, requests, displayed,
                   preferenceSummary, batchNumber, savedRatings>>
    /\ UNCHANGED <<bookStore, shownSlot, now, manualKeys>>
    /\ UNCHANGED <<formVars, uploadVars, libraryVars>>

\* 'Skip' and the close button of RatingNudge
CloseNudge ==
    /\ nudge.open
    /\ nudge' = NoNudge
    /\ last' = Call("onClose", <<>>, Return(JsUndefined), FALSE)
    /\ UNCHANGED <<page, stage, error, recs, refreshing, requests, displayed,
                   preferenceSummary, batchNumber, savedRatings>>
    /\ UNCHANGED <<bookStore, shownSlot, now, manualKeys>>
    /\ UNCHANGED <<formVars, uploadVars, libraryVars>>

\* 'Save Rating' of RatingNudge: handleSave, RecommendationList.handleRate
\* and RecommenderPage.handleRate
HandleRate ==
    /\ nudge.open
    /\ IsSelected(nudge.rating)
    /\ LET book == [title |-> nudge.rec.title, author |-> nudge.rec.author,
                    rating |-> nudge.rating, shelf |-> "read",
                    source |-> "recommended"]
       IN  \E r \in {upsertBook(bookStore, book, now)} :
             /\ bookStore' = r.slot
             /\ manualKeys' = IF r.ret.ok
                               THEN manualKeys \cup {makeKey(book.title, book.author)}
                               ELSE manualKeys
             /\ savedRatings' =
                   IF r.ret.ok
                   THEN [id \in DOMAIN savedRatings \cup {nudge.rec.google_books_id} |->
                            IF id = nudge.rec.google_books_id
                            THEN nudge.rating ELSE savedRatings[id]]
                   ELSE savedRatings
             /\ books' = IF r.ret.ok THEN handleLibraryUpdate(r.slot) ELSE books
             /\ nudge' = IF r.ret.ok THEN NoNudge ELSE nudge
             /\ last' = Call("upsertBook", book, r.ret, FALSE)
    /\ UNCHANGED <<page, stage, error, recs, refreshing, requests, displayed,
                   preferenceSummary, batchNumber>>
    /\ UNCHANGED <<shownSlot, now>>
    /\ UNCHANGED <<rateQuery, rateRating, formRating>>
    /\ UNCHANGED <<formVars, uploadVars>>

\* a star of the StarRating of AddBookForm: setRating
SetRating ==
    /\ page = "library"
    /\ \E n \in Stars :
          /\ formRating' = n
          /\ last' = Call("setRating", n, Return(JsUndefined), FALSE)
    /\ UNCHANGED <<books, rateQuery, rateRating>>
    /\ UNCHANGED <<bookStore, shownSlot, now, manualKeys>>
    /\ UNCHANGED <<recsVars, formVars, uploadVars>>

\* AddBookForm.handleSubmit and LibraryPage.handleAddBook: a book that is
\* typed in, not selected from the search results
HandleAddBook ==
    /\ page = "library"
    /\ IsSelected(formRating)
    /\ \E book \in {ManualBook(Walden, formRating)} :
          \E r \in {upsertBook(bookStore, book, now)} :
             /\ bookStore' = r.slot
             /\ manualKeys' = IF r.ret.ok
                               THEN manualKeys \cup {makeKey(book.title, book.author)}
                               ELSE manualKeys
             /\ books' = IF r.ret.ok THEN handleLibraryUpdate(r.slot) ELSE books
             /\ formRating' = IF r.ret.ok THEN 0 ELSE formRating
             /\ last' = Call("upsertBook", book, r.ret, FALSE)
    /\ UNCHANGED <<rateQuery, rateRating>>
    /\ UNCHANGED <<shownSlot, now>>
    /\ UNCHANGED <<recsVars, formVars, uploadVars>>

NextRecs ==
    \/ Navigate
    \/ FetchRecs
    \/ RecsSettle
    \/ TryAgain
    \/ OpenNudge
    \/ SetNudgeRating
    \/ CloseNudge
    \/ HandleRate
    \/ SetRating
    \/ HandleAddBook

SpecRecs == InitRecs /\ [][NextRecs]_vars

----------------------------------------------------------------------------
(* The pages together: the forms and the table of LibraryPage, the upload  *)
(* of RecommenderPage, the rating nudge and the book list of App. The      *)
(* application is followed from its start on an empty store, and from the  *)
(* moment that SpecRecs reaches when a first batch is on display; no       *)
(* recommendation is fetched here. The clock stands still.                 *)

Hamlet == <<"h", "a">>

\* a file of two books, one of them rated
GoodFile == File(<<FullRow(Hamlet, <<"4">>), FullRow(Emma, <<>>)>>)

\* the files that are imported: the good one; no data row; a row without
\* the other columns; a file that cannot be read
ImportFiles ==
    {GoodFile, File(<<>>), File(<<[col \in {"Title"} |-> Hamlet]>>), UnreadableFile}

\* RecommenderPage.handleCsvUpload up to its await, given one of the files:
\* the drop zone is there while the store is empty, and takes no file while
\* csvLoading is set
RecommenderUpload(files) ==
    /\ page = "recommender"
    /\ getBookCount(bookStore).ok
    /\ ~hasBooks(bookStore)
    /\ ~csvLoading
    /\ Cardinality(uploads) < MaxUploads
    /\ \E file \in files :
          /\ uploads' = uploads \cup {Upload("recommender", file)}
          /\ last' = Call("handleCsvUpload", file, Return(JsUndefined), FALSE)
    /\ csvLoading' = TRUE
    /\ UNCHANGED <<csvError, mergeResult>>
    /\ UNCHANGED <<bookStore, shownSlot, now, manualKeys>>
    /\ UNCHANGED <<recsVars, formVars, libraryVars>>

\* RecommenderPage.handleCsvUpload from the settling of parseGoodreadsCSV
\* to its end
RecommenderCsvUploadSettles ==
    \E u \in uploads :
      /\ u.page = "recommender"
      /\ \E parsed \in {parseGoodreadsCSV(u.file, now)} :
          LET merged == mergeBooks(bookStore, IF parsed.ok THEN parsed.value ELSE <<>>, now)
              done == parsed.ok /\ merged.ret.ok
              caught == u.mounted /\ ~done
          IN  /\ last' = Call("parseGoodreadsCSV", u.file, parsed, FALSE)
              /\ bookStore' = IF done THEN merged.slot ELSE bookStore
              /\ manualKeys' =
                    IF done
                    THEN manualKeys \ {parsed.value[i].book_key : i \in 1..Len(parsed.value)}
                    ELSE manualKeys
              /\ books' = IF done THEN handleLibraryUpdate(merged.slot) ELSE books
              /\ error' = IF ~caught THEN error
                           ELSE IF parsed.ok THEN <<merged.ret.value>>
                           ELSE MessageOf(parsed)
              /\ stage' = IF caught THEN "error" ELSE stage
              /\ nudge' = IF caught THEN NoNudge ELSE nudge
      /\ csvLoading' = IF u.mounted THEN FALSE ELSE csvLoading
      /\ uploads' = uploads \ {u}
      /\ UNCHANGED <<csvError, mergeResult>>
      /\ UNCHANGED <<page, recs, refreshing, requests, displayed,
                     preferenceSummary, batchNumber, savedRatings>>
      /\ UNCHANGED <<shownSlot, now>>
      /\ UNCHANGED <<rateQuery, rateRating, formRating>>
      /\ UNCHANGED formVars

\* the uploads of both pages, given any of the files
LibraryImport == LibraryUpload(ImportFiles)

RecommenderImport == RecommenderUpload(ImportFiles)

NextImport ==
    \/ Navigate
    \/ LibraryImport
    \/ CsvUploadSettles
    \/ RecommenderImport
    \/ RecommenderCsvUploadSettles
    \/ TryAgain

SpecImport == Init /\ [][NextImport]_vars

\* the uploads of both pages, given the good file
UpdateCsv == LibraryUpload({GoodFile})

RecommenderHandleCsvUpload == RecommenderUpload({GoodFile})

\* what is typed under 'Rate a Book': nothing, or a title that is in the
\* library once the good file is
RateTexts == {<<>>, Hamlet}

\* s.includes(part)
Includes(str, part) ==
    \E i \in 1..(Len(str) - Len(part) + 1) : SubSeq(str, i, i + Len(part) - 1) = part

\* the position of the entry that 'Rate a Book' shows for the text, 0 for
\* undefined: getAllBooks().find(...) when the trimmed text has 2
\* characters or more
Matched(items, text) ==
    LET hits == {i \in 1..Len(items) :
                    \/ Includes(ToLowerCase(items[i].title), ToLowerCase(text))
                    \/ Includes(ToLowerCase(items[i].author), ToLowerCase(text))}
    IN  IF Len(Trim(text)) >= 2 /\ hits # {}
        THEN CHOOSE i \in hits : \A j \in hits : i <= j
        ELSE 0

\* the input of 'Rate a Book': setRateQuery and setRateRating(0)
SetRateQuery ==
    /\ page = "library"
    /\ \E text \in RateTexts \ {rateQuery} :
          /\ rateQuery' = text
          /\ last' = Call("setRateQuery", text, Return(JsUndefined), FALSE)
    /\ rateRating' = 0
    /\ UNCHANGED <<books, formRating>>
    /\ UNCHANGED <<bookStore, shownSlot, now, manualKeys>>
    /\ UNCHANGED <<recsVars, formVars, uploadVars>>

\* a star of the StarRating of 'Rate a Book': setRateRating
SetRateRating ==
    /\ page = "library"
    /\ \E n \in Stars :
          /\ rateRating' = n
          /\ last' = Call("setRateRating", n, Return(JsUndefined), FALSE)
    /\ UNCHANGED <<books, rateQuery, formRating>>
    /\ UNCHANGED <<bookStore, shownSlot, now, manualKeys>>
    /\ UNCHANGED <<recsVars, formVars, uploadVars>>

\* LibraryPage.handleRateSave
HandleRateSave ==
    /\ page = "library"
    /\ getAllBooks(bookStore).value.kind = "array"
    /\ LET items == getAllBooks(bookStore).value.items
           m == Matched(items, rateQuery)
           title == IF m > 0 THEN items[m].title ELSE Trim(rateQuery)
           book == [title |-> title,
                    author |-> IF m > 0 THEN items[m].author ELSE <<>>,
                    rating |-> rateRating,
                    shelf |-> IF m > 0 THEN items[m].shelf ELSE "read",
                    review |-> IF m > 0 THEN Get(items[m], "review") ELSE Undefined,
                    bookshelves |-> IF m > 0 THEN Get(items[m], "bookshelves") ELSE Undefined,
                    isbn |-> IF m > 0 THEN Get(items[m], "isbn") ELSE Undefined,
                    source |-> "recommended"]
       IN  /\ title # <<>>
           /\ IsSelected(rateRating)
           /\ \E r \in {upsertBook(bookStore, book, now)} :
                 /\ bookStore' = r.slot
                 /\ manualKeys' = IF r.ret.ok
                                   THEN manualKeys \cup {makeKey(book.title, book.author)}
                                   ELSE manualKeys
                 /\ books' = IF r.ret.ok THEN handleLibraryUpdate(r.slot) ELSE books
                 /\ rateQuery' = IF r.ret.ok THEN <<>> ELSE rateQuery
                 /\ rateRating' = IF r.ret.ok THEN 0 ELSE rateRating
                 /\ last' = Call("upsertBook", book, r.ret, FALSE)
    /\ UNCHANGED formRating
    /\ UNCHANGED <<shownSlot, now>>
    /\ UNCHANGED <<recsVars, formVars, uploadVars>>

\* LibraryPage.handleRatingChange: a star in a row of the table, which
\* shows App's books
HandleRatingChange ==
    /\ page = "library"
    /\ books.kind = "array"
    /\ \E i \in 1..Len(books.items), newRating \in Stars :
          LET book == [books.items[i] EXCEPT !.rating = newRating]
          IN  \E r \in {upsertBook(bookStore, book, now)} :
                /\ bookStore' = r.slot
                /\ manualKeys' = IF r.ret.ok
                                  THEN manualKeys \cup {makeKey(book.title, book.author)}
                                  ELSE manualKeys
                /\ books' = IF r.ret.ok THEN handleLibraryUpdate(r.slot) ELSE books
                /\ last' = Call("upsertBook", book, r.ret, FALSE)
    /\ UNCHANGED <<rateQuery, rateRating, formRating>>
    /\ UNCHANGED <<shownSlot, now>>
    /\ UNCHANGED <<recsVars, formVars, uploadVars>>

\* the library when the first batch is on display: the seed and a third
\* rated book, added by hand
ResultsStore == upsertBook(SeedStore, ManualBook(Walden, 5), 0).slot

\* a first batch is on display and nothing is in flight
InitResults ==
    /\ page = "recommender"
    /\ stage = "results"
    /\ error = <<>>
    /\ recs = <<RecOf("g1")>>
    /\ refreshing = FALSE
    /\ preferenceSummary = Summary
    /\ batchNumber = 1
    /\ savedRatings = NoRatings
    /\ nudge = NoNudge
    /\ requests = {}
    /\ displayed = [id \in Ids |-> IF id = "g1" THEN 1 ELSE 0]
    /\ query = <<>>
    /\ results = <<>>
    /\ searching = FALSE
    /\ timer = NoTimer
    /\ searches = {}
    /\ csvLoading = FALSE
    /\ uploads = {}
    /\ csvError = <<>>
    /\ mergeResult = JsNull
    /\ rateQuery = <<>>
    /\ rateRating = 0
    /\ formRating = 0
    /\ bookStore = ResultsStore
    /\ shownSlot = JsArray(<<"g1">>)
    /\ now = 0
    /\ manualKeys = {makeKey(Walden, Herbert)}
    /\ last = NoCall
    /\ InitBooks

InitApp == Init \/ InitResults

NextApp ==
    \/ Navigate
    \/ UpdateCsv
    \/ CsvUploadSettles
    \/ RecommenderHandleCsvUpload
    \/ RecommenderCsvUploadSettles
    \/ SetRateQuery
    \/ SetRateRating
    \/ HandleRateSave
    \/ SetRating
    \/ HandleAddBook
    \/ HandleRatingChange
    \/ OpenNudge
    \/ SetNudgeRating
    \/ CloseNudge
    \/ HandleRate

SpecApp == InitApp /\ [][NextApp]_vars

----------------------------------------------------------------------------
(* Uploads and fetches that settle between the user's actions *)

\* the library holds three rated books and one that is not rated; no
\* recommendation has been shown
InitAsync ==
    /\ InitUi
    /\ bookStore = ResultsStore
    /\ shownSlot = MissingSlot
    /\ now = 0
    /\ manualKeys = {makeKey(Walden, Herbert)}
    /\ last = NoCall
    /\ InitBooks

NextAsync ==
    \/ Navigate
    \/ UpdateCsv
    \/ CsvUploadSettles
    \/ FetchRecs
    \/ RecsSettle

SpecAsync == InitAsync /\ [][NextAsync]_vars

----------------------------------------------------------------------------
(* The store given records that carry a key and a date *)

\* a record of Emma that comes with the key of another book and with a date
\* that no call of the run has
ForeignBook ==
    [title |-> Emma, author |-> Herbert, rating |-> 3,
     shelf |-> "read", source |-> "manual",
     book_key |-> makeKey(Dune, Herbert), date_updated |-> MaxClock + 1]

StampBooks == {CsvRow(Dune, 5), ForeignBook, ManualBook(DuneUpper, 3)}

StampLists == UNION {[1..n -> StampBooks] : n \in 0..MaxLen}

MergeCarried ==
    \E incoming \in StampLists :
        \E r \in {mergeBooks(bookStore, incoming, now)} :
        /\ bookStore' = r.slot
        /\ manualKeys' =
              manualKeys \ {makeKey(incoming[i].title, incoming[i].author) :
                                i \in 1..Len(incoming)}
        /\ last' = Call("mergeBooks", incoming, r.ret, FALSE)
        /\ UNCHANGED <<shownSlot, now>>
        /\ UNCHANGED uiVars

UpsertCarried ==
    \E book \in StampBooks :
        \E r \in {upsertBook(bookStore, book, now)} :
        /\ bookStore' = r.slot
        /\ manualKeys' = manualKeys \cup {makeKey(book.title, book.author)}
        /\ last' = Call("upsertBook", book, r.ret, FALSE)
        /\ UNCHANGED <<shownSlot, now>>
        /\ UNCHANGED uiVars

\* upsertBook({ ...book, rating: newRating }) with a record read from the
\* store, as handleRatingChange calls it
UpsertStored ==
    \E i \in 1..Len(readStore(bookStore).items), newRating \in Stars :
        \E book \in {[readStore(bookStore).items[i] EXCEPT !.rating = newRating]} :
        \E r \in {upsertBook(bookStore, book, now)} :
        /\ bookStore' = r.slot
        /\ manualKeys' = manualKeys \cup {makeKey(book.title, book.author)}
        /\ last' = Call("upsertBook", book, r.ret, FALSE)
        /\ UNCHANGED <<shownSlot, now>>
        /\ UNCHANGED uiVars

NextStamp ==
    \/ MergeCarried
    \/ UpsertCarried
    \/ UpsertStored
    \/ Tick

SpecStamp == Init /\ [][NextStamp]_vars

\* the entries the store holds
Items == readStore(bookStore).items

----------------------------------------------------------------------------
(* Vocabulary of the properties *)

\* a step that is a call of op (Tick is the only step that moves the clock)
CallStep(op) == now' = now /\ last'.op = op

KeySet(items) == {items[i].book_key : i \in 1..Len(items)}

EntriesUnder(items, k) == {i \in 1..Len(items) : items[i].book_key = k}

EntryUnder(items, k) == items[CHOOSE i \in EntriesUnder(items, k) : TRUE]

RatingUnder(items, k) ==
    IF EntriesUnder(items, k) = {} THEN 0 - 1 ELSE EntryUnder(items, k).rating

\* every field but book_key and date_updated agrees (absent = undefined)
SameFields(e, b) ==
    /\ e.title = b.title
    /\ e.author = b.author
    /\ e.rating = b.rating
    /\ e.shelf = b.shelf
    /\ e.source = b.source
    /\ \A f \in OptionalFields : Get(e, f) = Get(b, f)

LastWithKey(incoming, k) ==
    incoming[CHOOSE i \in 1..Len(incoming) :
                /\ KeyOfBook[incoming[i]] = k
                /\ \A j \in (i + 1)..Len(incoming) : KeyOfBook[incoming[j]] # k]

----------------------------------------------------------------------------
(* C1: from an empty or cleared store, after any sequence of mergeBooks,   *)
(* upsertBook and clearAll calls no two stored records have the same       *)
(* book_key.                                                               *)
OneRecordPerKey ==
    \A i, j \in 1..Len(Items) : Items[i].book_key = Items[j].book_key => i = j

\* a merge of two rows of one book into a store of two books
OneRecordPerKeyWitness ==
    /\ last.op = "mergeBooks"
    /\ Len(last.arg) = 2
    /\ Cardinality(KeysOf(last.arg)) = 1
    /\ Len(Items) = 2

(* C2: after mergeBooks(incoming) every key of an incoming record has      *)
(* exactly one stored record, whose fields are those of the last incoming  *)
(* record with that key (full replace); mergeBooks([A, B]) then            *)
(* mergeBooks([A']) with key(A') = key(A) leaves exactly 2 records.        *)
MergeReplacesInFull ==
    [][CallStep("mergeBooks") /\ last'.ret.ok =>
        LET incoming == last'.arg
            after == Items'
        IN  /\ \A k \in KeysOf(incoming) :
                  /\ Cardinality(EntriesUnder(after, k)) = 1
                  /\ SameFields(EntryUnder(after, k), LastWithKey(incoming, k))
            /\ ( /\ last.op = "mergeBooks"
                 /\ Len(last.arg) = 2
                 /\ Cardinality(KeysOf(last.arg)) = 2
                 /\ Len(Items) = 2
                 /\ Len(incoming) = 1
                 /\ KeysOf(incoming) \subseteq KeysOf(last.arg)
                 => Len(after) = 2 )
    ]_vars

\* a CSV row has overwritten a stored record: the genre it had is gone
MergeReplacesInFullWitness ==
    /\ last.op = "mergeBooks"
    /\ last.arg = <<CsvRow(Dune, 5)>>
    /\ last.ret.value.updated = 1
    /\ Len(Items) = 2
    /\ \A i \in 1..2 : Items[i].title = Dune => "genre" \notin DOMAIN Items[i]

MergeLeavesOthersUnchanged ==
    [][CallStep("mergeBooks") /\ last'.ret.ok =>
        \A i \in 1..Len(Items) :
            Items[i].book_key \notin KeysOf(last'.arg) =>
                Cardinality({j \in 1..Len(Items') : Items'[j] = Items[i]}) = 1
    ]_vars

\* an untouched record keeps an older date than the record the merge wrote
MergeLeavesOthersUnchangedWitness ==
    /\ last.op = "mergeBooks"
    /\ last.ret.ok
    /\ \E i, j \in 1..Len(Items) :
          /\ Items[i].book_key \notin KeysOf(last.arg)
          /\ Items[j].book_key \in KeysOf(last.arg)
          /\ Items[i].date_updated < Items[j].date_updated

(* C5 as stated: for every store content and every input list, lists with  *)
(* two records of one key included, mergeBooks returns total = the number  *)
(* of stored records after the call (what getBookCount() then returns) and *)
(* updated = the number of records that were in the store before the call  *)
(* and were overwritten by it.                                             *)
MergeReturnsCounts ==
    [][CallStep("mergeBooks") /\ last'.ret.ok =>
        /\ last'.ret.value.total = Len(Items')
        /\ getBookCount(bookStore') = Return(JsNumber(last'.ret.value.total))
        /\ last'.ret.value.updated =
              Cardinality(KeySet(Items) \cap KeysOf(last'.arg))
    ]_vars

(* C6: a second mergeBooks call with the same input list returns the same  *)
(* total as the first and updated = the length of the list, and leaves the *)
(* set of keys and every field but date_updated of every record unchanged. *)
MergeTwiceIsNoOp ==
    [][CallStep("mergeBooks") /\ last'.repeat /\ last.ret.ok =>
        /\ last'.ret.ok
        /\ last'.ret.value.total = last.ret.value.total
        /\ last'.ret.value.updated = Len(last'.arg)
        /\ KeySet(Items') = KeySet(Items)
        /\ Len(Items') = Len(Items)
        /\ \A i \in 1..Len(Items) :
              /\ Items'[i].book_key = Items[i].book_key
              /\ DOMAIN Items'[i] = DOMAIN Items[i]
              /\ SameFields(Items'[i], Items[i])
    ]_vars

\* the second of two equal merges of two rows, made at a later time
MergeTwiceIsNoOpWitness ==
    /\ last.op = "mergeBooks"
    /\ last.repeat
    /\ Len(last.arg) = 2
    /\ last.ret.value.updated = 2
    /\ \E i \in 1..Len(Items) : Items[i].date_updated >= 1

(* C7: upsertBook(r) changes the store as mergeBooks([r]) does: a record   *)
(* under makeKey(r.title, r.author) is replaced in full by r and the count *)
(* stays, otherwise r is inserted and the count grows by one; the records  *)
(* under every other key are untouched.                                    *)
UpsertIsMergeOfOne ==
    [][CallStep("upsertBook") /\ last'.ret.ok =>
        LET r == last'.arg
            k == KeyOfBook[last'.arg]
        IN  /\ bookStore' = mergeBooks(bookStore, <<r>>, now).slot
            /\ Len(Items') = IF k \in KeySet(Items) THEN Len(Items) ELSE Len(Items) + 1
            /\ Cardinality(EntriesUnder(Items', k)) = 1
            /\ SameFields(EntryUnder(Items', k), r)
            /\ \A i \in 1..Len(Items) : Items[i].book_key # k => Items'[i] = Items[i]
    ]_vars

\* the first of two records has been replaced in place by a later upsert
UpsertIsMergeOfOneWitness ==
    /\ last.op = "upsertBook"
    /\ last.ret.ok
    /\ Len(Items) = 2
    /\ Items[1].book_key = KeyOfBook[last.arg]
    /\ Items[1].date_updated > Items[2].date_updated

(* C8: getRatedBooks returns exactly the stored records with rating >= 1,  *)
(* whatever their shelf, the empty list when there is none, and never a    *)
(* record that getAllBooks does not return.                                *)
RatedBooksAreTheRatedOnes ==
    last.op = "getRatedBooks" =>
        /\ last.ret.ok
        /\ LET out == last.ret.value
               all == getAllBooks(bookStore).value.items
               rated == {i \in 1..Len(all) : all[i].rating >= 1}
           IN  /\ \A i \in rated : \E j \in 1..Len(out) : out[j] = all[i]
               /\ \A j \in 1..Len(out) :
                     \E i \in rated : all[i] = out[j]
               /\ Len(out) = Cardinality(rated)
               /\ rated = {} => out = <<>>

\* one of two stored records is returned, and its shelf is not "read"
RatedBooksWitness ==
    /\ last.op = "getRatedBooks"
    /\ last.ret.ok
    /\ Len(Items) = 2
    /\ Len(last.ret.value) = 1
    /\ last.ret.value[1].shelf # "read"

(* C9 as stated: whatever the 'bookStore' slot holds (nothing, text that   *)
(* is not JSON, or JSON that is not an array: null, a number, an object),  *)
(* getAllBooks, getRatedBooks, getBookCount, mergeBooks and upsertBook     *)
(* raise no error and behave as on an empty store.                         *)
BadSlotReadsAsEmpty ==
    [][bookStore.kind # "array" /\ now' = now =>
        /\ last'.op = "getAllBooks" =>
              last'.ret.ok /\ last'.ret = getAllBooks(MissingSlot)
        /\ last'.op = "getRatedBooks" =>
              last'.ret.ok /\ last'.ret = getRatedBooks(MissingSlot)
        /\ last'.op = "getBookCount" =>
              last'.ret.ok /\ last'.ret = getBookCount(MissingSlot)
        /\ last'.op = "mergeBooks" =>
              /\ last'.ret.ok
              /\ last'.ret = mergeBooks(MissingSlot, last'.arg, now).ret
              /\ bookStore' = mergeBooks(MissingSlot, last'.arg, now).slot
        /\ last'.op = "upsertBook" =>
              /\ last'.ret.ok
              /\ bookStore' = upsertBook(MissingSlot, last'.arg, now).slot
    ]_vars

\* whitespace that an import may add before or after a title or an author
Paddings == {<<>>, <<"sp">>, <<"tab">>, <<"tab", "sp">>}

(* C10 as stated: for all titles and authors makeKey(title, author) equals *)
(* makeKey(upper-cased title, author) and makeKey of the same title and    *)
(* author with whitespace added before or after either one.                *)
MakeKeyIgnoresCaseAndOuterSpace ==
    last.op = "makeKey" =>
        LET title == last.arg.title
            author == last.arg.author
            key == last.ret.value
        IN  /\ key = makeKey(title, author)
            /\ key = makeKey(ToUpperCase(title), author)
            /\ \A p, q \in Paddings :
                  /\ key = makeKey(p \o title \o q, author)
                  /\ key = makeKey(title, p \o author \o q)

\* toLowerCase().trim(), the form of a title or an author inside the key
Normalized(s) == Trim(ToLowerCase(s))

(* C11 as stated: two (title, author) pairs get the same key only if their *)
(* trimmed, lower-cased titles are equal and their trimmed, lower-cased    *)
(* authors are equal, for all strings, those that contain "::" included.   *)
MakeKeyIdentifiesThePair ==
    last.op = "makeKey" =>
        \A t \in Strings, a \in Strings :
            makeKey(t, a) = last.ret.value =>
                /\ Normalized(t) = Normalized(last.arg.title)
                /\ Normalized(a) = Normalized(last.arg.author)

\* the ids the shown set holds
ShownIds == getShownBookIds(shownSlot).items

Range(list) == {list[i] : i \in 1..Len(list)}

NoRepeat(list) == \A i, j \in 1..Len(list) : list[i] = list[j] => i = j

(* C12: the shown set holds each id once. addShownBookIds makes the set    *)
(* the union of what it held and the ids passed (also when the list of one *)
(* call repeats an id), getShownBookIds returns the set and nothing else,  *)
(* membership only grows, and only clearShownBookIds and clearAll empty it.*)
ShownSetIsUnionOfAdds ==
    [][/\ NoRepeat(ShownIds')
       /\ last'.op = "addShownBookIds" =>
             Range(ShownIds') = Range(ShownIds) \cup Range(last'.arg)
       /\ last'.op = "getShownBookIds" =>
             /\ last'.ret = Return(JsArray(ShownIds))
             /\ ShownIds' = ShownIds
       /\ last'.op \in {"clearShownBookIds", "clearAll"} => ShownIds' = <<>>
       /\ ~(Range(ShownIds) \subseteq Range(ShownIds')) =>
             last'.op \in {"clearShownBookIds", "clearAll"}
    ]_vars

\* an add of a list that repeats an id the set already holds, next to
\* another id
ShownSetWitness ==
    /\ last.op = "addShownBookIds"
    /\ Len(last.arg) = 2
    /\ last.arg[1] = last.arg[2]
    /\ Len(ShownIds) = 2
    /\ ShownIds[1] = last.arg[1]

\* the rows of a file that have a title that is not blank, by position
TitledRows(rows) ==
    {i \in 1..Len(rows) : "Title" \in DOMAIN rows[i] /\ Trim(rows[i]["Title"]) # <<>>}

\* the position of the j-th of them
NthTitled(rows, j) ==
    CHOOSE i \in TitledRows(rows) : Cardinality({k \in TitledRows(rows) : k < i}) = j - 1

(* C14: for a file that can be read, parseGoodreadsCSV rejects with the    *)
(* empty-input error when there is no data row; otherwise it rejects with  *)
(* the schema-mismatch error, naming each required column that the first   *)
(* row lacks once and no other column; it resolves only when there is a    *)
(* row and the first row has all four required columns.                    *)
CsvIsValidatedFirst ==
    last.op = "parseGoodreadsCSV" /\ ~last.arg.error =>
        LET rows == last.arg.rows
            ret == last.ret
            absent == IF rows = <<>> THEN {}
                      ELSE {"Title", "Author", "My Rating", "Exclusive Shelf"} \ DOMAIN rows[1]
        IN  IF rows = <<>>
            THEN ~ret.ok /\ ret.value = <<"CSV file is empty">>
            ELSE IF absent # {}
                 THEN /\ ~ret.ok
                      /\ ret.value[1] = SchemaPrefix
                      /\ Len(ret.value) = 2 * Cardinality(absent)
                      /\ {ret.value[i] : i \in 2..Len(ret.value)} \ {", "} = absent
                 ELSE ret.ok

\* a file whose first row lacks two required columns and whose second row
\* has them all
CsvIsValidatedWitness ==
    /\ last.op = "parseGoodreadsCSV"
    /\ ~last.arg.error
    /\ Len(last.arg.rows) = 2
    /\ Cardinality(DOMAIN last.arg.rows[1]) = 2
    /\ Cardinality(DOMAIN last.arg.rows[2]) = 4
    /\ ~last.ret.ok

(* C15: when parseGoodreadsCSV resolves, the list has one record for each  *)
(* row whose Title is not blank after trimming, in the order of the rows;  *)
(* a row with a blank Title is dropped without an error and without effect *)
(* on the records of the other rows; a file of such rows resolves to the   *)
(* empty list.                                                             *)
BlankTitlesAreDropped ==
    last.op = "parseGoodreadsCSV" /\ last.ret.ok =>
        LET rows == last.arg.rows
            parsed == last.ret.value
        IN  /\ Len(parsed) = Cardinality(TitledRows(rows))
            /\ \A j \in 1..Len(parsed) :
                  /\ parsed[j].title = Trim(rows[NthTitled(rows, j)]["Title"])
                  /\ parsed[j] = ParseRow(rows[NthTitled(rows, j)], now)

\* a blank title in the first row, a book in the second
BlankTitlesWitness ==
    /\ last.op = "parseGoodreadsCSV"
    /\ last.ret.ok
    /\ Len(last.arg.rows) = 2
    /\ Trim(last.arg.rows[1]["Title"]) = <<>>
    /\ Len(last.ret.value) = 1

(* C16 as stated: every record in the store has an integer rating from 0   *)
(* to 5, after any sequence of CSV imports (whatever the text of the       *)
(* My Rating column), manual adds and rating edits.                        *)
StoredRatingsAreStars ==
    \A i \in 1..Len(Items) : Items[i].rating \in 0..5

(* C17 as stated: searchBooks never passes an error on to its caller: for  *)
(* a status that is not a success, for a rejected network request and for  *)
(* a body that is not JSON it resolves to the empty list.                  *)
SearchBooksNeverThrows ==
    last.op = "searchBooks" =>
        /\ last.ret.ok
        /\ last.arg.outcome.kind # "ok" => last.ret.value = <<>>

\* the ids that have been on display
DisplayedIds == {id \in Ids : displayed[id] > 0}

\* the requests sent by this step
Sent == IF last'.op = "fetchRecs" THEN requests' \ requests ELSE {}

(* C13: every request that fetchRecs sends carries the whole shown set as  *)
(* exclude_book_ids, and the shown set holds the id of every               *)
(* recommendation that has been on display by then; with a backend that    *)
(* returns no excluded id, no id is on display in two batches, however     *)
(* fetches, responses and navigation away and back interleave.             *)
RefreshNeverRepeats ==
    [][/\ \A q \in Sent :
             /\ Range(q.exclude_book_ids) = Range(ShownIds)
             /\ DisplayedIds \subseteq Range(q.exclude_book_ids)
       /\ \A id \in Ids : displayed'[id] <= 1
    ]_vars

\* the page shows a second batch, from a request that excluded the first
\* one, while a request of an earlier instance of the page is in flight
RefreshWitness ==
    /\ last.op = "getRecommendations"
    /\ stage = "results"
    /\ Len(recs) = 1
    /\ last.arg.request.mounted
    /\ Len(last.arg.request.exclude_book_ids) = 1
    /\ Cardinality(DisplayedIds) = 2
    /\ \E q \in requests : ~q.mounted

(* C18: when a recommendation request fails, by a response that is no      *)
(* success or by a rejected network call, the page that sent it goes to    *)
(* stage 'error' with the detail message of the failure as its error text  *)
(* and with refreshing false; 'Try again' leads from 'error' to 'setup';   *)
(* and the page is in 'loading' or refreshing only while a request of its  *)
(* own is in flight.                                                       *)
FailedFetchIsRetryable ==
    [][/\ (/\ last'.op = "getRecommendations"
           /\ last'.arg.outcome.kind # "ok"
           /\ last'.arg.request.mounted)
          => /\ stage' = "error"
             /\ ~refreshing'
             /\ last'.arg.outcome.kind = "http" =>
                   error' = IF last'.arg.outcome.detail = <<>>
                            THEN <<"Recommendation failed">>
                            ELSE last'.arg.outcome.detail
             /\ last'.arg.outcome.kind = "network" => error' = <<"Failed to fetch">>
       /\ last'.op = "tryAgain" => stage = "error" /\ stage' = "setup"
       /\ stage' = "loading" \/ refreshing' =>
             /\ page' = "recommender"
             /\ \E q \in requests' : q.mounted
    ]_vars

\* a refresh of a batch on display has failed with the detail of the
\* response
FailedFetchWitness ==
    /\ last.op = "getRecommendations"
    /\ last.arg.outcome.kind = "http"
    /\ last.arg.outcome.detail # <<>>
    /\ stage = "error"
    /\ error = last.arg.outcome.detail
    /\ Len(recs) = 1

\* the stored records with a rating of 1 or more, by position
RatedItems == {i \in 1..Len(Items) : Items[i].rating >= 1}

NthRated(j) ==
    CHOOSE i \in RatedItems : Cardinality({k \in RatedItems : k < i}) = j - 1

(* C19: a fetchRecs call sends a request only when the store holds 3 or    *)
(* more records with a rating of 1 or more, and read_books of the request  *)
(* is those records, all of them and no record with rating 0, as stored at *)
(* the moment of the call; with fewer such records no request is sent and  *)
(* the stage goes to 'error'.                                              *)
RequestsCarryTheRatedBooks ==
    [][last'.op = "fetchRecs" =>
          IF Cardinality(RatedItems) < 3
          THEN Sent = {} /\ stage' = "error"
          ELSE /\ Cardinality(Sent) = 1
               /\ \A q \in Sent :
                     /\ Len(q.read_books) = Cardinality(RatedItems)
                     /\ \A j \in 1..Len(q.read_books) :
                           /\ q.read_books[j].title = Items[NthRated(j)].title
                           /\ q.read_books[j].author = Items[NthRated(j)].author
                           /\ q.read_books[j].rating = Items[NthRated(j)].rating
                           /\ q.read_books[j].shelf = Items[NthRated(j)].shelf
                           /\ q.read_books[j].rating >= 1
    ]_vars

\* a request is under way with the three rated books of a store of four
RequestsWitness ==
    /\ last.op = "fetchRecs"
    /\ stage = "loading"
    /\ Len(Items) = 4
    /\ \E i \in 1..Len(Items) : Items[i].rating = 0
    /\ \E q \in requests : q.mounted /\ Len(q.read_books) = 3

(* C20: a record is deleted by a full reset only: a key that is in the     *)
(* store is still there after every mergeBooks and upsertBook call, the    *)
(* number of records does not go down in any step but a clearAll call, and *)
(* clearShownBookIds leaves the 'bookStore' slot as it is.                 *)
RecordsAreNeverDeleted ==
    [][/\ CallStep("mergeBooks") \/ CallStep("upsertBook") =>
             KeySet(Items) \subseteq KeySet(Items')
       /\ ~CallStep("clearAll") => Len(Items') >= Len(Items)
       /\ CallStep("clearShownBookIds") => bookStore' = bookStore
    ]_vars

\* an upsert of one book into a store that holds it and another one
RecordsWitness ==
    /\ last.op = "upsertBook"
    /\ Len(Items) = 2
    /\ Items[1].book_key = makeKey(last.arg.title, last.arg.author)
    /\ Items[1].source = "manual"

(* C25 as stated: no record that parseGoodreadsCSV resolves to has a        *)
(* book_key or a date_updated of its own; the two fields are first given   *)
(* to a record by the store, at merge time.                                *)
AdapterLeavesKeyAndDateUnset ==
    last.op = "parseGoodreadsCSV" /\ last.ret.ok =>
        \A i \in 1..Len(last.ret.value) :
            /\ "book_key" \notin DOMAIN last.ret.value[i]
            /\ "date_updated" \notin DOMAIN last.ret.value[i]

(* C21: every mergeBooks and upsertBook call gives every record it writes  *)
(* the time of the call as date_updated, whatever date the input carries,  *)
(* so that no stored record is dated later than a record just written.     *)
WritesAreStampedNow ==
    [][(CallStep("mergeBooks") \/ CallStep("upsertBook")) /\ last'.ret.ok =>
        LET written == IF last'.op = "mergeBooks"
                       THEN {makeKey(last'.arg[i].title, last'.arg[i].author) :
                                i \in 1..Len(last'.arg)}
                       ELSE {makeKey(last'.arg.title, last'.arg.author)}
        IN  /\ \A k \in written :
                  /\ EntriesUnder(Items', k) # {}
                  /\ \A i \in EntriesUnder(Items', k) : Items'[i].date_updated = now
            /\ \A i \in 1..Len(Items') : Items'[i].date_updated <= now
    ]_vars

\* a record that came with a later date and one that came back from the
\* store with an earlier date have both been written at time 1
WritesAreStampedNowWitness ==
    /\ now = 1
    /\ last.op = "upsertBook"
    /\ "date_updated" \in DOMAIN last.arg
    /\ last.arg.date_updated = 0
    /\ Len(Items) = 2
    /\ \A i \in 1..2 : Items[i].date_updated = 1
    /\ \E i \in 1..2 : Items[i].title = Emma

(* C22: after any merge or upsert every stored record has the book_key     *)
(* lowercase(trim(title)) + '::' + lowercase(trim(author)), also when the  *)
(* input came with another book_key.                                       *)
StoredKeyIsDerived ==
    \A i \in 1..Len(Items) :
        Items[i].book_key = makeKey(Items[i].title, Items[i].author)

\* the record of Emma that came with the key of Dune sits beside Dune
StoredKeyIsDerivedWitness ==
    /\ last.op = "mergeBooks"
    /\ \E i \in 1..Len(last.arg) : last.arg[i] = ForeignBook
    /\ \E i \in 1..Len(Items) :
          Items[i].title = Emma /\ Items[i].book_key = makeKey(Emma, Herbert)
    /\ \E i \in 1..Len(Items) :
          Items[i].title = DuneUpper /\ Items[i].book_key = makeKey(Dune, Herbert)

(* C24: when a CSV import fails (no data row, missing columns, a file that *)
(* cannot be parsed) the record store, the shown set and the books of App  *)
(* are as before; the page instance that started the import, while it is   *)
(* mounted, shows exactly the message of the error (csvError on the        *)
(* library page, the error banner on the recommender page), shows no merge *)
(* result and has csvLoading false; an instance that is gone shows nothing *)
(* on the page that replaced it.                                           *)
FailedImportShowsItsMessage ==
    [][last'.op = "parseGoodreadsCSV" /\ ~last'.ret.ok /\ uploads' # uploads =>
        /\ bookStore' = bookStore
        /\ shownSlot' = shownSlot
        /\ books' = books
        /\ \A u \in uploads \ uploads' :
              IF u.mounted
              THEN /\ csvLoading' = FALSE
                   /\ mergeResult' = JsNull
                   /\ IF u.page = "library"
                      THEN csvError' = last'.ret.value /\ UNCHANGED <<error, stage>>
                      ELSE /\ error' = last'.ret.value
                           /\ stage' = "error"
                           /\ csvError' = csvError
              ELSE UNCHANGED <<csvLoading, csvError, mergeResult, error, stage>>
    ]_vars

\* a library of two books, then a file without the other columns: the
\* library page shows the schema message and the store still has the two
FailedImportShowsItsMessageWitness ==
    /\ page = "library"
    /\ last.op = "parseGoodreadsCSV"
    /\ ~last.ret.ok
    /\ csvError = last.ret.value
    /\ csvError[1] = SchemaPrefix
    /\ ~csvLoading
    /\ mergeResult = JsNull
    /\ Len(Items) = 2
    /\ books = JsArray(Items)

(* C27: whenever a handler that writes the record store has run to its    *)
(* end (manual add, Rate a Book, a star in the table, the rating of a      *)
(* recommendation, a CSV upload of either page), the books of App are what *)
(* getAllBooks() returns, however uploads that settle interleave with user *)
(* actions and page changes.                                               *)
AppBooksAreTheStore == books = getAllBooks(bookStore).value

\* the upload of the recommender page has settled after the user had left
\* for the library, where a book was rated in between
AppBooksAreTheStoreWitness ==
    /\ page = "library"
    /\ last.op = "parseGoodreadsCSV"
    /\ last.ret.ok
    /\ Len(Items) = 3
    /\ \E i \in 1..3 : Items[i].source = "manual"
    /\ \E i \in 1..3 : Items[i].rating = 0

\* the keys of the entries that getRatedBooks returns
RatedKeys(slot) ==
    LET rated == getRatedBooks(slot).value
    IN  {rated[i].book_key : i \in 1..Len(rated)}

FetchedState == <<shownSlot, recs, preferenceSummary, batchNumber>>

(* C26: a fetch of recommendations that is refused because fewer than 3    *)
(* books are rated, or whose request fails, leaves the shown set, the      *)
(* recommendations, the preference summary and batchNumber of the page as  *)
(* they were; the shown set changes only by a successful response, and     *)
(* batchNumber, 0 for a new page instance, changes only by growing by one  *)
(* with each successful response to the instance.                          *)
FailedFetchChangesNothing ==
    [][/\ last'.op = "fetchRecs" => FetchedState' = FetchedState
       /\ (last'.op = "getRecommendations" /\ last'.arg.outcome.kind # "ok")
             => FetchedState' = FetchedState
       /\ shownSlot' # shownSlot =>
             last'.op = "getRecommendations" /\ last'.arg.outcome.kind = "ok"
       /\ batchNumber' # batchNumber =>
             \/ /\ last'.op = "getRecommendations"
                /\ last'.arg.outcome.kind = "ok"
                /\ last'.arg.request.mounted
                /\ batchNumber' = batchNumber + 1
             \/ last'.op = "onNavigate" /\ batchNumber' = 0
       /\ ( /\ last'.op = "getRecommendations"
            /\ last'.arg.outcome.kind = "ok"
            /\ last'.arg.request.mounted )
             => /\ batchNumber' = batchNumber + 1
                /\ recs' = last'.arg.outcome.recommendations
                /\ preferenceSummary' = last'.arg.outcome.preference_summary
    ]_vars

\* the first batch is there, and the refresh that followed it has failed
FailedFetchChangesNothingWitness ==
    /\ last.op = "getRecommendations"
    /\ last.arg.outcome.kind = "http"
    /\ last.arg.request.mounted
    /\ batchNumber = 1
    /\ Len(recs) = 1
    /\ preferenceSummary = Summary
    /\ Len(getShownBookIds(shownSlot).items) = 1

\* the records of a call of mergeBooks or upsertBook, as a list
WrittenBy(call) ==
    IF call.op = "parseGoodreadsCSV" THEN call.ret.value ELSE <<call.arg>>

\* the last record of the list that has the key
LastUnder(incoming, k) ==
    incoming[CHOOSE i \in 1..Len(incoming) :
                /\ makeKey(incoming[i].title, incoming[i].author) = k
                /\ \A j \in (i + 1)..Len(incoming) :
                      makeKey(incoming[j].title, incoming[j].author) # k]

====
